---------------------------- MODULE Spec2Model ----------------------------
(***************************************************************************)
(* Verification model of three pieces of the repository:                   *)
(*   - the union authorizer            (package union, Authorize)          *)
(*   - the keystone authorizer         (package keystone, authorizer)      *)
(*   - the keystone request authenticator (package keystone, authenticator)*)
(* Go strings are modelled as sequences of byte values (0..255); the empty *)
(* string is << >>.  A Go error value is a record: NoError is the nil      *)
(* error.                                                                  *)
(***************************************************************************)
EXTENDS Integers, Sequences, FiniteSets, TLC

VARIABLES
    \* ---- union authorizer ----
    authzHandler,   \* the member list given to New (each member's answer for a)
    unionPc,        \* "idle" | "loop" | "done": position inside Authorize
    idx,            \* index of the next member the range loop visits
    errlist,        \* the errors collected so far
    consulted,      \* instrumentation: indices of the members called, in call order
    unionResult,    \* the error Authorize returned
    \* ---- keystone authorizer ----
    osClient,       \* which implementation of Interface ka.osClient is
    phase,          \* how far construction has come
    userMap,        \* ka.userMap: the map the field refers to
    tenantMap,      \* ka.tenantMap: the map the field refers to
    userRacy,       \* ka.userMap was last written by the background goroutine
    tenantRacy,     \* ka.tenantMap was last written by the background goroutine
    userSync,       \* the running syncUserMap call: its position and locals
    tenantSync,     \* the running syncTenantMap call: its position and locals
    userSyncErr,    \* what syncUserMap returned, until it is called again
    tenantSyncErr,  \* what syncTenantMap returned, until it is called again
    inFlight,       \* instrumentation: how many calls of syncUserMap and of
                    \* syncTenantMap have started and not yet returned
    published,      \* instrumentation: whether a syncUserMap (syncTenantMap) call
                    \* has assigned ka.userMap (ka.tenantMap) since construction
    authz,          \* the running (or last finished) keystoneAuthorizer.Authorize call
    \* ---- keystone request authenticator ----
    passwordClient, \* which implementation of authenticator.Password a.osClient is
    header,         \* the request's Authorization header ("" when absent)
    authnPc,        \* "request" | "done": position of AuthenticateRequest
    passwordCalls,  \* instrumentation: the (username, password) pairs given to
                    \* AuthenticatePassword, in call order
    passwordReturn, \* instrumentation: what AuthenticatePassword returned last
    providerReply,  \* instrumentation: how the identity provider answered the
                    \* call ("none": it was not asked)
    authnResult     \* what AuthenticateRequest returned: (user, ok, err)

unionVars == <<authzHandler, unionPc, idx, errlist, consulted, unionResult>>

ksVars == <<osClient, phase, userMap, tenantMap, userRacy, tenantRacy,
            userSync, tenantSync, userSyncErr, tenantSyncErr, inFlight, published,
            authz>>

authnVars == <<passwordClient, header, authnPc, passwordCalls, passwordReturn, providerReply,
               authnResult>>

vars == <<unionVars, ksVars, authnVars>>

(***************************************************************************)
(* Bounds of the model.                                                    *)
(***************************************************************************)
MaxMembers == 3

\* The longest username and the longest password of the generated credentials.
MaxUserLen == 2

MaxPassLen == 3

(***************************************************************************)
(* Generic helpers.                                                        *)
(***************************************************************************)
SeqsUpTo(S, n) == UNION {[1..k -> S] : k \in 0..n}

\* The nil error, and an error carrying a message.
NoError == [isNil |-> TRUE, msg |-> "", errs |-> << >>]

ErrorOf(m) == [isNil |-> FALSE, msg |-> m, errs |-> << >>]

(***************************************************************************)
(* Union authorizer.                                                       *)
(***************************************************************************)
\* A member authorizer is modelled by the answer its Authorize gives for the
\* request at hand: it grants (returns nil) or denies with a reason.
Members ==
    { [grants |-> TRUE, reason |-> ""] }
    \cup { [grants |-> FALSE, reason |-> r] : r \in {"denied-A", "denied-B"} }

MemberAuthorize(m) == IF m.grants THEN NoError ELSE ErrorOf(m.reason)

\* A variant of errors.NewAggregate: an empty list gives nil, no error.
NewAggregateNilWhenEmpty(list) ==
    IF list = << >> THEN NoError
    ELSE [isNil |-> FALSE, msg |-> "aggregate", errs |-> list]

\* errors.NewAggregate: the aggregate of the collected errors.  An empty list
\* gives an aggregated failure with zero underlying errors.
NewAggregate(list) == [isNil |-> FALSE, msg |-> "aggregate", errs |-> list]

\* New: the handler is the list itself.
New(handlers) == handlers

\* Authorize, entry: var errlist []error; the range loop starts at the first member.
UnionEnter ==
    /\ unionPc = "idle"
    /\ unionPc' = "loop"
    /\ idx' = 1
    /\ errlist' = << >>
    /\ consulted' = << >>
    /\ UNCHANGED <<authzHandler, unionResult>>
    /\ UNCHANGED <<ksVars, authnVars>>

\* A variant of UnionIterDeny: an error equal to one already collected is dropped.
UnionIterDenyDedup ==
    /\ unionPc = "loop"
    /\ idx <= Len(authzHandler)
    /\ LET err == MemberAuthorize(authzHandler[idx]) IN
         /\ ~err.isNil
         /\ errlist' = IF \E j \in 1..Len(errlist) : errlist[j] = err
                       THEN errlist ELSE Append(errlist, err)
    /\ consulted' = Append(consulted, idx)
    /\ idx' = idx + 1
    /\ UNCHANGED <<authzHandler, unionPc, unionResult>>
    /\ UNCHANGED <<ksVars, authnVars>>

\* One iteration of the loop whose member returns an error: collect it, continue.
UnionIterDeny ==
    /\ unionPc = "loop"
    /\ idx <= Len(authzHandler)
    /\ LET err == MemberAuthorize(authzHandler[idx]) IN
         /\ ~err.isNil
         /\ errlist' = Append(errlist, err)
    /\ consulted' = Append(consulted, idx)
    /\ idx' = idx + 1
    /\ UNCHANGED <<authzHandler, unionPc, unionResult>>
    /\ UNCHANGED <<ksVars, authnVars>>

\* A variant of UnionIterGrant: the grant is remembered but the loop goes on.
UnionIterGrantNoReturn ==
    /\ unionPc = "loop"
    /\ idx <= Len(authzHandler)
    /\ MemberAuthorize(authzHandler[idx]).isNil
    /\ consulted' = Append(consulted, idx)
    /\ idx' = idx + 1
    /\ UNCHANGED <<authzHandler, unionPc, errlist, unionResult>>
    /\ UNCHANGED <<ksVars, authnVars>>

\* One iteration of the loop whose member returns nil: return nil at once.
UnionIterGrant ==
    /\ unionPc = "loop"
    /\ idx <= Len(authzHandler)
    /\ MemberAuthorize(authzHandler[idx]).isNil
    /\ consulted' = Append(consulted, idx)
    /\ unionResult' = NoError
    /\ unionPc' = "done"
    /\ UNCHANGED <<authzHandler, idx, errlist>>
    /\ UNCHANGED <<ksVars, authnVars>>

\* The loop is exhausted: return the aggregate of the collected errors.
UnionExhausted ==
    /\ unionPc = "loop"
    /\ idx > Len(authzHandler)
    /\ unionResult' = NewAggregate(errlist)
    /\ unionPc' = "done"
    /\ UNCHANGED <<authzHandler, idx, errlist, consulted>>
    /\ UNCHANGED <<ksVars, authnVars>>

(***************************************************************************)
(* Go strings used by the keystone authorizer and its test, as byte        *)
(* sequences.                                                              *)
(***************************************************************************)
\* ""
StrEmpty == << >>

\* "user1"
StrUser1 ==
    <<117, 115, 101, 114, 49>>

\* "user2"
StrUser2 ==
    <<117, 115, 101, 114, 50>>

\* "user3"
StrUser3 ==
    <<117, 115, 101, 114, 51>>

\* "user4"
StrUser4 ==
    <<117, 115, 101, 114, 52>>

\* "tenant1"
StrTenant1 ==
    <<116, 101, 110, 97, 110, 116, 49>>

\* "tenant2"
StrTenant2 ==
    <<116, 101, 110, 97, 110, 116, 50>>

\* "tenant3"
StrTenant3 ==
    <<116, 101, 110, 97, 110, 116, 51>>

\* "kubelet"
StrKubelet ==
    <<107, 117, 98, 101, 108, 101, 116>>

\* "kube_proxy"
StrKubeProxy ==
    <<107, 117, 98, 101, 95, 112, 114, 111, 120, 121>>

\* "system:scheduler"
StrScheduler ==
    <<115, 121, 115, 116, 101, 109, 58, 115, 99, 104, 101, 100, 117, 108, 101, 114>>

\* "system:controller_manager"
StrControllerManager ==
    <<115, 121, 115, 116, 101, 109, 58, 99, 111, 110, 116, 114, 111, 108, 108, 101, 114, 95, 109, 97, 110, 97, 103, 101, 114>>

\* "system:logging"
StrLogging ==
    <<115, 121, 115, 116, 101, 109, 58, 108, 111, 103, 103, 105, 110, 103>>

\* "system:monitoring"
StrMonitoring ==
    <<115, 121, 115, 116, 101, 109, 58, 109, 111, 110, 105, 116, 111, 114, 105, 110, 103>>

\* "system:serviceaccount:x"
StrServiceAccountX ==
    <<115, 121, 115, 116, 101, 109, 58, 115, 101, 114, 118, 105, 99, 101, 97, 99, 99, 111, 117, 110, 116, 58, 120>>

\* "system:serviceaccount"
StrServiceAccountNoColon ==
    <<115, 121, 115, 116, 101, 109, 58, 115, 101, 114, 118, 105, 99, 101, 97, 99, 99, 111, 117, 110, 116>>

\* "12"
Id12 ==
    <<49, 50>>

\* "23"
Id23 ==
    <<50, 51>>

\* "34"
Id34 ==
    <<51, 52>>

\* "56"
Id56 ==
    <<53, 54>>

\* "123"
Id123 ==
    <<49, 50, 51>>

\* "234"
Id234 ==
    <<50, 51, 52>>

\* "345"
Id345 ==
    <<51, 52, 53>>

\* "123:12"
Key123x12 ==
    <<49, 50, 51, 58, 49, 50>>

\* "234:12"
Key234x12 ==
    <<50, 51, 52, 58, 49, 50>>

\* "456:23"
Key456x23 ==
    <<52, 53, 54, 58, 50, 51>>

\* strings.HasPrefix(s, prefix)
HasPrefix(s, prefix) ==
    /\ Len(s) >= Len(prefix)
    /\ SubSeq(s, 1, Len(prefix)) = prefix

(***************************************************************************)
(* Go maps of string to string: functions on the set of present keys.      *)
(***************************************************************************)
EmptyMap == [k \in {} |-> StrEmpty]

\* m[k] = v
MapPut(m, k, v) == [x \in (DOMAIN m) \cup {k} |-> IF x = k THEN v ELSE m[x]]

\* m[k]: the value, or the zero value "" when k is absent
Lookup(m, k) == IF k \in DOMAIN m THEN m[k] ELSE StrEmpty

\* The maps that agree with m on the keys they hold.
SubMaps(m) == { [k \in D |-> m[k]] : D \in SUBSET (DOMAIN m) }

(***************************************************************************)
(* Keystone authorizer: the identity provider behind ka.osClient.          *)
(***************************************************************************)
\* The two implementations of Interface in the repository.
ClientKinds == {"OpenstackClient", "testOpenstackClient"}

User(name, id, enabled) == [Username |-> name, ID |-> id, Enabled |-> enabled]

Tenant(name, id, enabled) == [Name |-> name, ID |-> id, Enabled |-> enabled]

\* getUserSampleSet / getTenantSampleSet / sampleRoleSet of the test double.
getUserSampleSet ==
    << User(StrUser1, Id12, TRUE), User(StrUser2, Id23, TRUE),
       User(StrUser3, Id34, TRUE), User(StrUser4, Id56, TRUE) >>

getTenantSampleSet ==
    << Tenant(StrTenant1, Id123, TRUE), Tenant(StrTenant2, Id234, TRUE),
       Tenant(StrTenant3, Id345, TRUE) >>

sampleRoleSet == {Key123x12, Key234x12, Key456x23}

\* The user and tenant directories the real provider may return from one
\* call to the next: entries come and go, and some are disabled.
ProviderUserLists ==
    { << User(StrUser1, Id12, TRUE), User(StrUser3, Id34, TRUE) >>,
      << User(StrUser1, Id23, TRUE), User(StrUser3, Id34, FALSE) >> }

ProviderTenantLists ==
    { << Tenant(StrTenant1, Id123, TRUE), Tenant(StrTenant3, Id345, FALSE) >>,
      << Tenant(StrTenant3, Id345, TRUE) >> }

\* getUsers: the lists the call can return, and the errors it can return.
GetUsersLists(kind) ==
    IF kind = "testOpenstackClient" THEN {getUserSampleSet} ELSE ProviderUserLists

GetUsersErrors(kind) ==
    IF kind = "testOpenstackClient" THEN {} ELSE {ErrorOf("users: provider call failed")}

\* getTenants: likewise.
GetTenantsLists(kind) ==
    IF kind = "testOpenstackClient" THEN {getTenantSampleSet} ELSE ProviderTenantLists

GetTenantsErrors(kind) ==
    IF kind = "testOpenstackClient" THEN {} ELSE {ErrorOf("tenants: provider call failed")}

\* What roleCheck can return: (hasRole, err).
RoleResult(hasRole, err) == [hasRole |-> hasRole, err |-> err]

\* A variant of OpenstackClient.roleCheck without the check of the tenant id.
OpenstackRoleCheckNoTenantGuard(userID, tenantID) ==
    IF userID = StrEmpty
    THEN {RoleResult(FALSE, ErrorOf("UserID null during authorization"))}
    ELSE { RoleResult(FALSE, ErrorOf(e)) : e \in {"pager: timeout", "pager: 500"} }
         \cup { RoleResult(h, NoError) : h \in BOOLEAN }

\* OpenstackClient.roleCheck: an empty id is an error; otherwise the pager
\* fails, or reports whether the user has any role in the tenant.
OpenstackRoleCheck(userID, tenantID) ==
    IF userID = StrEmpty
    THEN {RoleResult(FALSE, ErrorOf("UserID null during authorization"))}
    ELSE IF tenantID = StrEmpty
    THEN {RoleResult(FALSE, ErrorOf("UserID null during authorization"))}
    ELSE { RoleResult(FALSE, ErrorOf(e)) : e \in {"pager: timeout", "pager: 500"} }
         \cup { RoleResult(h, NoError) : h \in BOOLEAN }

\* testOpenstackClient.roleCheck: a lookup of tenantID + ":" + userID.
TestRoleCheck(userID, tenantID) ==
    LET key == tenantID \o <<58>> \o userID
    IN  {RoleResult(key \in sampleRoleSet, NoError)}

roleCheck(kind, userID, tenantID) ==
    IF kind = "testOpenstackClient"
    THEN TestRoleCheck(userID, tenantID)
    ELSE OpenstackRoleCheck(userID, tenantID)

(***************************************************************************)
(* Keystone authorizer: Authorize.                                         *)
(***************************************************************************)
\* "system:serviceaccount:"
ServiceAccountPrefix ==
    <<115, 121, 115, 116, 101, 109, 58, 115, 101, 114, 118, 105, 99, 101, 97, 99, 99, 111, 117, 110, 116, 58>>

\* A variant of isWhiteListedUser: one entry of the list is missing.
isWhiteListedUserShort(username) ==
    username \in {StrKubelet, StrKubeProxy, StrScheduler, StrControllerManager,
                  StrLogging}

\* isWhiteListedUser: membership in the compiled-in list.
isWhiteListedUser(username) ==
    username \in {StrKubelet, StrKubeProxy, StrScheduler, StrControllerManager,
                  StrLogging, StrMonitoring}

\* The requests the model sends: subject names and namespaces.
SubjectNames ==
    { StrEmpty, StrUser1, StrUser3, StrServiceAccountNoColon,
      ServiceAccountPrefix, StrServiceAccountX,
      StrKubelet, StrKubeProxy, StrScheduler, StrControllerManager,
      StrLogging, StrMonitoring }

Namespaces == {StrEmpty, StrTenant1, StrTenant3}

Granted == NoError

\* The record of one Authorize call: the request, the two ids read from the
\* maps, the roleCheck invocations made and what they were given and
\* returned, and the error Authorize returns.  obsU and obsT are
\* instrumentation: the contents of ka.userMap and ka.tenantMap as they were
\* visible to the call when it read them.
NoRoleResult == RoleResult(FALSE, NoError)

AuthzCall(user, ns) ==
    [ pc |-> "enter", user |-> user, ns |-> ns,
      uid |-> StrEmpty, tid |-> StrEmpty, obsU |-> EmptyMap, obsT |-> EmptyMap,
      rcCalls |-> 0, rcArgs |-> << >>, rc |-> NoRoleResult, result |-> NoError,
      snapsT |-> {}, mixed |-> FALSE ]

AuthzIdle == [AuthzCall(StrEmpty, StrEmpty) EXCEPT !.pc = "idle"]

\* The authorizer serves requests once its constructor (or the test's
\* set-up) has handed it out.
Serving == phase \in {"running", "ready"}

CanStartAuthorize == Serving /\ authz.pc = "idle"

\* What a read of a map field can observe.  A map published by the background
\* goroutine is read without synchronisation (a data race): the reader sees
\* the new map, with any of the entries written into it not yet visible.
Views(m, racy) == IF racy THEN SubMaps(m) ELSE {m}

\* if strings.HasPrefix(a.GetUserName(), "system:serviceaccount:") { return nil }
AuthorizeServiceAccount ==
    /\ CanStartAuthorize
    /\ \E user \in SubjectNames, ns \in Namespaces :
         /\ HasPrefix(user, ServiceAccountPrefix)
         /\ authz' = [AuthzCall(user, ns) EXCEPT !.pc = "done", !.result = Granted]
    /\ UNCHANGED <<osClient, phase, userMap, tenantMap, userRacy, tenantRacy,
                   userSync, tenantSync, userSyncErr, tenantSyncErr>>
    /\ UNCHANGED <<unionVars, authnVars, inFlight, published>>

\* if isWhiteListedUser(a.GetUserName()) { return nil }
AuthorizeWhiteListed ==
    /\ CanStartAuthorize
    /\ \E user \in SubjectNames, ns \in Namespaces :
         /\ ~HasPrefix(user, ServiceAccountPrefix)
         /\ isWhiteListedUser(user)
         /\ authz' = [AuthzCall(user, ns) EXCEPT !.pc = "done", !.result = Granted]
    /\ UNCHANGED <<osClient, phase, userMap, tenantMap, userRacy, tenantRacy,
                   userSync, tenantSync, userSyncErr, tenantSyncErr>>
    /\ UNCHANGED <<unionVars, authnVars, inFlight, published>>

\* Neither: the call goes on to the role check.
AuthorizeEnter ==
    /\ CanStartAuthorize
    /\ \E user \in SubjectNames, ns \in Namespaces :
         /\ ~HasPrefix(user, ServiceAccountPrefix)
         /\ ~isWhiteListedUser(user)
         /\ authz' = [AuthzCall(user, ns) EXCEPT !.pc = "readUser"]
    /\ UNCHANGED <<osClient, phase, userMap, tenantMap, userRacy, tenantRacy,
                   userSync, tenantSync, userSyncErr, tenantSyncErr>>
    /\ UNCHANGED <<unionVars, authnVars, inFlight, published>>

\* Instrumentation of a call between its two map reads: snapsT holds the
\* values ka.tenantMap had at the moments at which ka.userMap was a map the
\* call's read of it could have seen; a publication may add to it.
SnapshotsSeen(newUserMap, newTenantMap) ==
    IF authz.pc = "readTenant" /\ authz.obsU \in SubMaps(newUserMap)
    THEN [authz EXCEPT !.snapsT = authz.snapsT \cup {newTenantMap}]
    ELSE authz

\* A variant of AuthorizeReadUser: the read waits while a refresh of the user
\* map is under way, as under a lock held across the refresh.
AuthorizeReadUserLocked ==
    /\ authz.pc = "readUser"
    /\ userSync.pc = "idle"
    /\ \E view \in Views(userMap, userRacy) :
         authz' = [authz EXCEPT !.pc = "readTenant", !.obsU = view,
                                !.uid = Lookup(view, authz.user),
                                !.snapsT = {tenantMap}]
    /\ UNCHANGED <<osClient, phase, userMap, tenantMap, userRacy, tenantRacy,
                   userSync, tenantSync, userSyncErr, tenantSyncErr>>
    /\ UNCHANGED <<unionVars, authnVars, inFlight, published>>

\* ka.userMap[a.GetUserName()], the first argument of roleCheck
AuthorizeReadUser ==
    /\ authz.pc = "readUser"
    /\ \E view \in Views(userMap, userRacy) :
         authz' = [authz EXCEPT !.pc = "readTenant", !.obsU = view,
                                !.uid = Lookup(view, authz.user),
                                !.snapsT = {tenantMap}]
    /\ UNCHANGED <<osClient, phase, userMap, tenantMap, userRacy, tenantRacy,
                   userSync, tenantSync, userSyncErr, tenantSyncErr>>
    /\ UNCHANGED <<unionVars, authnVars, inFlight, published>>

\* A variant of AuthorizeReadTenant: roleCheck is given the tenant id first.
AuthorizeReadTenantSwapped ==
    /\ authz.pc = "readTenant"
    /\ \E view \in Views(tenantMap, tenantRacy) :
         LET tid == Lookup(view, authz.ns) IN
         authz' = [authz EXCEPT !.pc = "roleCheck", !.obsT = view, !.tid = tid,
                                !.rcCalls = authz.rcCalls + 1,
                                !.rcArgs = <<tid, authz.uid>>,
                                !.snapsT = {},
                                !.mixed = \A T \in authz.snapsT : view \notin SubMaps(T)]
    /\ UNCHANGED <<osClient, phase, userMap, tenantMap, userRacy, tenantRacy,
                   userSync, tenantSync, userSyncErr, tenantSyncErr>>
    /\ UNCHANGED <<unionVars, authnVars, inFlight, published>>

\* ka.tenantMap[a.GetNamespace()], the second argument, is read and
\* ka.osClient.roleCheck is called with the two values read.
AuthorizeReadTenant ==
    /\ authz.pc = "readTenant"
    /\ \E view \in Views(tenantMap, tenantRacy) :
         LET tid == Lookup(view, authz.ns) IN
         authz' = [authz EXCEPT !.pc = "roleCheck", !.obsT = view, !.tid = tid,
                                !.rcCalls = authz.rcCalls + 1,
                                !.rcArgs = <<authz.uid, tid>>,
                                !.snapsT = {},
                                !.mixed = \A T \in authz.snapsT : view \notin SubMaps(T)]
    /\ UNCHANGED <<osClient, phase, userMap, tenantMap, userRacy, tenantRacy,
                   userSync, tenantSync, userSyncErr, tenantSyncErr>>
    /\ UNCHANGED <<unionVars, authnVars, inFlight, published>>

\* A variant of Decision: the error of roleCheck is handed to the caller.
DecisionLeaksError(rc) ==
    IF ~rc.err.isNil THEN rc.err
    ELSE IF rc.hasRole THEN Granted
    ELSE ErrorOf("User not authorized through keystone for namespace")

\* The decision Authorize returns for what roleCheck returned.
Decision(rc) ==
    IF ~rc.err.isNil THEN ErrorOf("Keystone authorization failed")
    ELSE IF rc.hasRole THEN Granted
    ELSE ErrorOf("User not authorized through keystone for namespace")

\* roleCheck returns and Authorize returns its decision.
AuthorizeReturn ==
    /\ authz.pc = "roleCheck"
    /\ \E rc \in roleCheck(osClient, authz.rcArgs[1], authz.rcArgs[2]) :
         authz' = [authz EXCEPT !.pc = "done", !.rc = rc, !.result = Decision(rc)]
    /\ UNCHANGED <<osClient, phase, userMap, tenantMap, userRacy, tenantRacy,
                   userSync, tenantSync, userSyncErr, tenantSyncErr>>
    /\ UNCHANGED <<unionVars, authnVars, inFlight, published>>

\* The call has returned to its caller; the next request can come.
AuthorizeReturned ==
    /\ authz.pc = "done"
    /\ authz' = AuthzIdle
    /\ UNCHANGED <<osClient, phase, userMap, tenantMap, userRacy, tenantRacy,
                   userSync, tenantSync, userSyncErr, tenantSyncErr>>
    /\ UNCHANGED <<unionVars, authnVars, inFlight, published>>

(***************************************************************************)
(* Keystone authorizer: syncUserMap and syncTenantMap.                     *)
(***************************************************************************)
SyncIdle == [pc |-> "idle", list |-> << >>, i |-> 0, m |-> EmptyMap]

\* Who may call syncUserMap now: the constructor, the test, or (once started)
\* the background goroutine, whose util.Forever calls it again and again.
UserSyncCallable == phase \in {"syncUsers", "testSyncUsers", "running"}

TenantSyncCallable == phase \in {"syncTenants", "testSyncTenants", "running"}

\* A variant of AfterUserSync: an error of a background refresh ends the
\* background tasks.
AfterUserSyncStopsOnError(ok) ==
    CASE phase = "syncUsers" -> IF ok THEN "syncTenants" ELSE "failed"
      [] phase = "testSyncUsers" -> "ready"
      [] phase = "running" -> IF ok THEN "running" ELSE "stopped"
      [] OTHER -> phase

\* Where the caller of syncUserMap goes when it returns (ok: it returned nil).
\* The constructor gives up on an error; the test ignores the result; the
\* background goroutine logs the error and carries on.
AfterUserSync(ok) ==
    CASE phase = "syncUsers" -> IF ok THEN "syncTenants" ELSE "failed"
      [] phase = "testSyncUsers" -> "ready"
      [] OTHER -> phase

\* A variant of AfterTenantSync: the constructor logs the error of its
\* syncTenantMap call and carries on, as the background goroutine does.
AfterTenantSyncIgnoresError(ok) ==
    CASE phase = "syncTenants" -> "starting"
      [] phase = "testSyncTenants" -> "testSyncUsers"
      [] OTHER -> phase

AfterTenantSync(ok) ==
    CASE phase = "syncTenants" -> IF ok THEN "starting" ELSE "failed"
      [] phase = "testSyncTenants" -> "testSyncUsers"
      [] OTHER -> phase

\* A variant of SyncUserMapCall: a refresh is started without waiting for
\* the one under way to return.
SyncUserMapCallOverlapping ==
    /\ UserSyncCallable
    /\ inFlight.users < 2
    /\ userSync' = [SyncIdle EXCEPT !.pc = "calling"]
    /\ userSyncErr' = NoError
    /\ UNCHANGED <<osClient, phase, userMap, tenantMap, userRacy, tenantRacy,
                   tenantSync, tenantSyncErr, authz>>
    /\ inFlight' = [inFlight EXCEPT !.users = @ + 1]
    /\ UNCHANGED <<unionVars, authnVars, published>>

\* A variant of SyncUserMapCall: the new map starts as a copy of the current
\* one, so the refresh merges.
SyncUserMapCallMerging ==
    /\ UserSyncCallable
    /\ userSync.pc = "idle"
    /\ userSync' = [SyncIdle EXCEPT !.pc = "calling", !.m = userMap]
    /\ userSyncErr' = NoError
    /\ UNCHANGED <<osClient, phase, userMap, tenantMap, userRacy, tenantRacy,
                   tenantSync, tenantSyncErr, authz>>
    /\ inFlight' = [inFlight EXCEPT !.users = @ + 1]
    /\ UNCHANGED <<unionVars, authnVars, published>>

\* userMap := make(map[string]string); ka.osClient.getUsers() is called
SyncUserMapCall ==
    /\ UserSyncCallable
    /\ userSync.pc = "idle"
    /\ userSync' = [SyncIdle EXCEPT !.pc = "calling"]
    /\ userSyncErr' = NoError
    /\ UNCHANGED <<osClient, phase, userMap, tenantMap, userRacy, tenantRacy,
                   tenantSync, tenantSyncErr, authz>>
    /\ inFlight' = [inFlight EXCEPT !.users = @ + 1]
    /\ UNCHANGED <<unionVars, authnVars, published>>

\* A variant of SyncUserMapFail: on an error the fresh empty map is stored.
SyncUserMapFailClears ==
    /\ userSync.pc = "calling"
    /\ \E err \in GetUsersErrors(osClient) : userSyncErr' = err
    /\ userMap' = userSync.m
    /\ userSync' = SyncIdle
    /\ phase' = AfterUserSync(FALSE)
    /\ UNCHANGED <<osClient, tenantMap, userRacy, tenantRacy,
                   tenantSync, tenantSyncErr, authz>>
    /\ inFlight' = [inFlight EXCEPT !.users = @ - 1]
    /\ UNCHANGED <<unionVars, authnVars, published>>

\* getUsers returns an error: syncUserMap returns it.
SyncUserMapFail ==
    /\ userSync.pc = "calling"
    /\ \E err \in GetUsersErrors(osClient) : userSyncErr' = err
    /\ userSync' = SyncIdle
    /\ phase' = AfterUserSync(FALSE)
    /\ UNCHANGED <<osClient, userMap, tenantMap, userRacy, tenantRacy,
                   tenantSync, tenantSyncErr, authz>>
    /\ inFlight' = [inFlight EXCEPT !.users = @ - 1]
    /\ UNCHANGED <<unionVars, authnVars, published>>

\* getUsers returns a list: the loop over it starts.
SyncUserMapList ==
    /\ userSync.pc = "calling"
    /\ \E l \in GetUsersLists(osClient) :
         userSync' = [userSync EXCEPT !.pc = "filling", !.list = l, !.i = 1]
    /\ UNCHANGED <<osClient, phase, userMap, tenantMap, userRacy, tenantRacy,
                   tenantSync, userSyncErr, tenantSyncErr, authz>>
    /\ UNCHANGED <<unionVars, authnVars, inFlight, published>>

\* One iteration: if user.Enabled { userMap[user.Username] = user.ID }
SyncUserMapFill ==
    /\ userSync.pc = "filling"
    /\ userSync.i <= Len(userSync.list)
    /\ LET user == userSync.list[userSync.i] IN
         userSync' = [userSync EXCEPT
                        !.i = userSync.i + 1,
                        !.m = IF user.Enabled
                              THEN MapPut(userSync.m, user.Username, user.ID)
                              ELSE userSync.m]
    /\ UNCHANGED <<osClient, phase, userMap, tenantMap, userRacy, tenantRacy,
                   tenantSync, userSyncErr, tenantSyncErr, authz>>
    /\ UNCHANGED <<unionVars, authnVars, inFlight, published>>

\* ka.userMap = userMap; return nil
SyncUserMapPublish ==
    /\ userSync.pc = "filling"
    /\ userSync.i > Len(userSync.list)
    /\ userMap' = userSync.m
    /\ userRacy' = (phase = "running")
    /\ userSyncErr' = NoError
    /\ userSync' = SyncIdle
    /\ phase' = AfterUserSync(TRUE)
    /\ authz' = SnapshotsSeen(userSync.m, tenantMap)
    /\ UNCHANGED <<osClient, tenantMap, tenantRacy, tenantSync, tenantSyncErr>>
    /\ inFlight' = [inFlight EXCEPT !.users = @ - 1]
    /\ published' = [published EXCEPT !.users = TRUE]
    /\ UNCHANGED <<unionVars, authnVars>>

\* tenantMap := make(map[string]string); ka.osClient.getTenants() is called
SyncTenantMapCall ==
    /\ TenantSyncCallable
    /\ tenantSync.pc = "idle"
    /\ tenantSync' = [SyncIdle EXCEPT !.pc = "calling"]
    /\ tenantSyncErr' = NoError
    /\ UNCHANGED <<osClient, phase, userMap, tenantMap, userRacy, tenantRacy,
                   userSync, userSyncErr, authz>>
    /\ inFlight' = [inFlight EXCEPT !.tenants = @ + 1]
    /\ UNCHANGED <<unionVars, authnVars, published>>

\* getTenants returns an error: syncTenantMap returns it.
SyncTenantMapFail ==
    /\ tenantSync.pc = "calling"
    /\ \E err \in GetTenantsErrors(osClient) : tenantSyncErr' = err
    /\ tenantSync' = SyncIdle
    /\ phase' = AfterTenantSync(FALSE)
    /\ UNCHANGED <<osClient, userMap, tenantMap, userRacy, tenantRacy,
                   userSync, userSyncErr, authz>>
    /\ inFlight' = [inFlight EXCEPT !.tenants = @ - 1]
    /\ UNCHANGED <<unionVars, authnVars, published>>

\* getTenants returns a list: the loop over it starts.
SyncTenantMapList ==
    /\ tenantSync.pc = "calling"
    /\ \E l \in GetTenantsLists(osClient) :
         tenantSync' = [tenantSync EXCEPT !.pc = "filling", !.list = l, !.i = 1]
    /\ UNCHANGED <<osClient, phase, userMap, tenantMap, userRacy, tenantRacy,
                   userSync, userSyncErr, tenantSyncErr, authz>>
    /\ UNCHANGED <<unionVars, authnVars, inFlight, published>>

\* One iteration: if tenant.Enabled { tenantMap[tenant.Name] = tenant.ID }
SyncTenantMapFill ==
    /\ tenantSync.pc = "filling"
    /\ tenantSync.i <= Len(tenantSync.list)
    /\ LET tenant == tenantSync.list[tenantSync.i] IN
         tenantSync' = [tenantSync EXCEPT
                          !.i = tenantSync.i + 1,
                          !.m = IF tenant.Enabled
                                THEN MapPut(tenantSync.m, tenant.Name, tenant.ID)
                                ELSE tenantSync.m]
    /\ UNCHANGED <<osClient, phase, userMap, tenantMap, userRacy, tenantRacy,
                   userSync, userSyncErr, tenantSyncErr, authz>>
    /\ UNCHANGED <<unionVars, authnVars, inFlight, published>>

\* ka.tenantMap = tenantMap; return nil
SyncTenantMapPublish ==
    /\ tenantSync.pc = "filling"
    /\ tenantSync.i > Len(tenantSync.list)
    /\ tenantMap' = tenantSync.m
    /\ tenantRacy' = (phase = "running")
    /\ tenantSyncErr' = NoError
    /\ tenantSync' = SyncIdle
    /\ phase' = AfterTenantSync(TRUE)
    /\ authz' = SnapshotsSeen(userMap, tenantSync.m)
    /\ UNCHANGED <<osClient, userMap, userRacy, userSync, userSyncErr>>
    /\ inFlight' = [inFlight EXCEPT !.tenants = @ - 1]
    /\ published' = [published EXCEPT !.tenants = TRUE]
    /\ UNCHANGED <<unionVars, authnVars>>

(***************************************************************************)
(* Keystone authorizer: construction.                                      *)
(***************************************************************************)
\* NewKeystoneAuthorizer up to the first sync: the config file is opened and
\* read and the client is created, or one of these fails and nil is returned.
NewKeystoneAuthorizerOpen ==
    /\ phase = "new"
    /\ osClient = "OpenstackClient"
    /\ \E ok \in BOOLEAN : phase' = IF ok THEN "syncUsers" ELSE "failed"
    /\ userMap' = EmptyMap
    /\ tenantMap' = EmptyMap
    /\ UNCHANGED <<osClient, userRacy, tenantRacy, userSync, tenantSync,
                   userSyncErr, tenantSyncErr, authz>>
    /\ UNCHANGED <<unionVars, authnVars, inFlight, published>>

\* NewKeystoneAuthorizer after both syncs: the two background goroutines are
\* started and the authorizer is returned.
NewKeystoneAuthorizerStart ==
    /\ phase = "starting"
    /\ phase' = "running"
    /\ UNCHANGED <<osClient, userMap, tenantMap, userRacy, tenantRacy, userSync,
                   tenantSync, userSyncErr, tenantSyncErr, authz>>
    /\ UNCHANGED <<unionVars, authnVars, inFlight, published>>

\* TestAuthorize: the authorizer is a struct literal around the test double;
\* syncTenantMap and syncUserMap are called before Authorize.
TestAuthorizeSetup ==
    /\ phase = "new"
    /\ osClient = "testOpenstackClient"
    /\ phase' = "testSyncTenants"
    /\ UNCHANGED <<osClient, userMap, tenantMap, userRacy, tenantRacy, userSync,
                   tenantSync, userSyncErr, tenantSyncErr, authz>>
    /\ UNCHANGED <<unionVars, authnVars, inFlight, published>>

\* The keystone variables when the keystone authorizer is not being run.
KeystoneParked ==
    /\ osClient = "OpenstackClient"
    /\ phase = "new"
    /\ userMap = EmptyMap
    /\ tenantMap = EmptyMap
    /\ userRacy = FALSE
    /\ tenantRacy = FALSE
    /\ userSync = SyncIdle
    /\ tenantSync = SyncIdle
    /\ userSyncErr = NoError
    /\ tenantSyncErr = NoError
    /\ inFlight = [users |-> 0, tenants |-> 0]
    /\ published = [users |-> FALSE, tenants |-> FALSE]
    /\ authz = AuthzIdle

KeystoneInit ==
    /\ osClient \in ClientKinds
    /\ phase = "new"
    /\ userMap = EmptyMap
    /\ tenantMap = EmptyMap
    /\ userRacy = FALSE
    /\ tenantRacy = FALSE
    /\ userSync = SyncIdle
    /\ tenantSync = SyncIdle
    /\ userSyncErr = NoError
    /\ tenantSyncErr = NoError
    /\ inFlight = [users |-> 0, tenants |-> 0]
    /\ published = [users |-> FALSE, tenants |-> FALSE]
    /\ authz = AuthzIdle

KeystoneNext ==
    \/ NewKeystoneAuthorizerOpen
    \/ NewKeystoneAuthorizerStart
    \/ TestAuthorizeSetup
    \/ SyncUserMapCall
    \/ SyncUserMapFail
    \/ SyncUserMapList
    \/ SyncUserMapFill
    \/ SyncUserMapPublish
    \/ SyncTenantMapCall
    \/ SyncTenantMapFail
    \/ SyncTenantMapList
    \/ SyncTenantMapFill
    \/ SyncTenantMapPublish
    \/ AuthorizeServiceAccount
    \/ AuthorizeWhiteListed
    \/ AuthorizeEnter
    \/ AuthorizeReadUser
    \/ AuthorizeReadTenant
    \/ AuthorizeReturn
    \/ AuthorizeReturned

(***************************************************************************)
(* Keystone request authenticator: the string functions it uses.           *)
(***************************************************************************)
\* The ASCII white space strings.TrimSpace removes: \t \n \v \f \r and space.
AsciiSpace == {9, 10, 11, 12, 13, 32}

\* strings.TrimSpace
RECURSIVE TrimLeft(_)
TrimLeft(s) ==
    IF s # << >> /\ s[1] \in AsciiSpace THEN TrimLeft(SubSeq(s, 2, Len(s))) ELSE s

RECURSIVE TrimRight(_)
TrimRight(s) ==
    IF s # << >> /\ s[Len(s)] \in AsciiSpace
    THEN TrimRight(SubSeq(s, 1, Len(s) - 1)) ELSE s

TrimSpace(s) == TrimRight(TrimLeft(s))

\* The index of the first occurrence of byte c in s, or 0.
IndexByte(s, c) ==
    IF \E i \in 1..Len(s) : s[i] = c
    THEN CHOOSE i \in 1..Len(s) : s[i] = c /\ \A j \in 1..(i - 1) : s[j] # c
    ELSE 0

\* strings.Split(s, sep) for a one-byte separator: every occurrence splits.
RECURSIVE Split(_, _)
Split(s, sep) ==
    LET i == IndexByte(s, sep)
    IN  IF i = 0 THEN <<s>>
        ELSE <<SubSeq(s, 1, i - 1)>> \o Split(SubSeq(s, i + 1, Len(s)), sep)

\* A variant that splits at the last occurrence of the separator.
SplitLast2(s, sep) ==
    LET R == {i \in 1..Len(s) : s[i] = sep}
        i == CHOOSE k \in R : \A j \in R : j <= k
    IN  IF R = {} THEN <<s>>
        ELSE <<SubSeq(s, 1, i - 1), SubSeq(s, i + 1, Len(s))>>

\* strings.SplitN(s, sep, 2) for a one-byte separator: split at the first
\* occurrence only.
SplitN2(s, sep) ==
    LET i == IndexByte(s, sep)
    IN  IF i = 0 THEN <<s>>
        ELSE <<SubSeq(s, 1, i - 1), SubSeq(s, i + 1, Len(s))>>

\* strings.ToLower on ASCII text.
ToLower(s) == [i \in 1..Len(s) |-> IF s[i] \in 65..90 THEN s[i] + 32 ELSE s[i]]

\* The value of a character of the standard base64 alphabet, or -1.
B64Value(c) ==
    CASE c \in 65..90 -> c - 65
      [] c \in 97..122 -> c - 71
      [] c \in 48..57 -> c + 4
      [] c = 43 -> 62
      [] c = 47 -> 63
      [] OTHER -> -1

IsB64(c) == B64Value(c) >= 0

\* The bytes of one group of 2, 3 or 4 base64 characters.
B64Group(q) ==
    LET v(i) == IF i <= Len(q) THEN B64Value(q[i]) ELSE 0
        n == ((v(1) * 64 + v(2)) * 64 + v(3)) * 64 + v(4)
        bytes == << n \div 65536, (n \div 256) % 256, n % 256 >>
    IN  SubSeq(bytes, 1, Len(q) - 1)

\* base64.StdEncoding.DecodeString after the removal of \r and \n: groups of
\* four characters, "=" padding only to fill the last group.  The result is
\* (ok, bytes); ok = FALSE is a CorruptInputError.
RECURSIVE DecodeGroups(_)
DecodeGroups(s) ==
    IF s = << >> THEN [ok |-> TRUE, bytes |-> << >>]
    ELSE IF Len(s) < 4 THEN [ok |-> FALSE, bytes |-> << >>]
    ELSE LET q == SubSeq(s, 1, 4)
             rest == SubSeq(s, 5, Len(s))
         IN  IF \A i \in 1..4 : IsB64(q[i])
             THEN LET r == DecodeGroups(rest)
                  IN  [ok |-> r.ok,
                       bytes |-> IF r.ok THEN B64Group(q) \o r.bytes ELSE << >>]
             ELSE IF rest = << >> /\ IsB64(q[1]) /\ IsB64(q[2]) /\ IsB64(q[3]) /\ q[4] = 61
             THEN [ok |-> TRUE, bytes |-> B64Group(SubSeq(q, 1, 3))]
             ELSE IF rest = << >> /\ IsB64(q[1]) /\ IsB64(q[2]) /\ q[3] = 61 /\ q[4] = 61
             THEN [ok |-> TRUE, bytes |-> B64Group(SubSeq(q, 1, 2))]
             ELSE [ok |-> FALSE, bytes |-> << >>]

DecodeString(s) == DecodeGroups(SelectSeq(s, LAMBDA c : c \notin {10, 13}))

(***************************************************************************)
(* Keystone request authenticator: the password collaborator.              *)
(***************************************************************************)
PasswordClientKinds == {"OpenstackClient", "testOpenstackClient"}

\* user.Info: nil, or &user.DefaultInfo{Name: name}
NilUser == [isNil |-> TRUE, name |-> << >>]

DefaultInfo(name) == [isNil |-> FALSE, name |-> name]

AuthResult(user, ok, err) == [user |-> user, ok |-> ok, err |-> err]

\* userPasswordMap of the test double
userPasswordMap ==
    (<<117, 115, 101, 114, 49>> :> <<112, 97, 115, 115, 119, 111, 114, 100, 49>>) @@
    (<<117, 115, 101, 114, 50>> :> <<112, 97, 115, 115, 119, 111, 114, 100, 50>>) @@
    (<<117, 115, 101, 114, 51>> :> <<112, 97, 115, 115, 119, 111, 114, 100, 51>>) @@
    (<<117, 115, 101, 114, 52>> :> <<112, 97, 115, 115, 119, 111, 114, 100, 52>>) @@
    (<<117, 115, 101, 114, 53>> :> <<112, 97, 115, 115, 119, 111, 114, 100, 53>>) @@
    (<<117, 115, 101, 114, 54>> :> <<112, 97, 115, 115, 119, 111, 114, 100, 54>>) @@
    (<<117, 115, 101, 114, 55>> :> <<112, 97, 115, 115, 119, 111, 114, 100, 55>>) @@
    (<<117, 115, 101, 114, 56>> :> <<112, 97, 115, 115, 119, 111, 114, 100, 56>>) @@
    (<<117, 115, 101, 114, 57>> :> <<112, 97, 115, 115, 119, 111, 114, 100, 56>>)

\* testOpenstackClient.AuthenticatePassword
TestAuthenticatePassword(username, password) ==
    IF Lookup(userPasswordMap, username) = password
    THEN {AuthResult(DefaultInfo(username), TRUE, NoError)}
    ELSE {AuthResult(NilUser, FALSE, NoError)}

\* The accounts of the identity provider: username -> password.
ProviderAccounts == userPasswordMap

\* openstack.AuthenticatedClient(opts): the provider cannot be reached, or it
\* answers: the credentials are those of an account, or they are refused.
AuthenticatedClientReplies(username, password) ==
    IF username \in DOMAIN ProviderAccounts /\ ProviderAccounts[username] = password
    THEN {"authenticated", "unreachable"}
    ELSE {"unauthorized", "unreachable"}

\* OpenstackClient.AuthenticatePassword after the provider's reply: any err
\* of AuthenticatedClient gives (nil, false, "Failed to authenticate").
OpenstackReplyResult(reply, username) ==
    IF reply = "authenticated"
    THEN AuthResult(DefaultInfo(username), TRUE, NoError)
    ELSE AuthResult(NilUser, FALSE, ErrorOf("Failed to authenticate"))

\* OpenstackClient.AuthenticatePassword
OpenstackAuthenticatePassword(username, password) ==
    { OpenstackReplyResult(reply, username) :
        reply \in AuthenticatedClientReplies(username, password) }

AuthenticatePassword(kind, username, password) ==
    IF kind = "testOpenstackClient"
    THEN TestAuthenticatePassword(username, password)
    ELSE OpenstackAuthenticatePassword(username, password)

\* The provider's possible replies to one AuthenticatePassword call, and the
\* result of the call for a reply; the test double asks no provider.
PasswordReplies(kind, username, password) ==
    IF kind = "testOpenstackClient" THEN {"none"}
    ELSE AuthenticatedClientReplies(username, password)

PasswordResult(kind, reply, username, password) ==
    IF kind = "testOpenstackClient"
    THEN CHOOSE r \in TestAuthenticatePassword(username, password) : TRUE
    ELSE OpenstackReplyResult(reply, username)

(***************************************************************************)
(* Keystone request authenticator: AuthenticateRequest.                    *)
(***************************************************************************)
\* "basic"
StrBasicLower ==
    <<98, 97, 115, 105, 99>>

\* auth := strings.TrimSpace(req.Header.Get("Authorization"))
HeaderAuth == TrimSpace(header)

\* parts := strings.Split(auth, " ")
HeaderParts == Split(HeaderAuth, 32)

\* len(parts) < 2 || strings.ToLower(parts[0]) != "basic"
InvalidHeader == Len(HeaderParts) < 2 \/ ToLower(HeaderParts[1]) # StrBasicLower

\* payload, err := base64.StdEncoding.DecodeString(parts[1])
HeaderPayload == DecodeString(HeaderParts[2])

\* pair := strings.SplitN(string(payload), ":", 2)
HeaderPair == SplitN2(HeaderPayload.bytes, 58)

\* An early return with an error: (nil, false, err).
AuthnFails(err) ==
    /\ authnPc = "request"
    /\ authnPc' = "done"
    /\ authnResult' = AuthResult(NilUser, FALSE, err)
    /\ UNCHANGED <<passwordClient, header, passwordCalls, passwordReturn, providerReply>>
    /\ UNCHANGED <<unionVars, ksVars>>

\* if auth == "" { return nil, false, errors.New(...) }
AuthenticateRequestEmpty ==
    /\ HeaderAuth = << >>
    /\ AuthnFails(ErrorOf("Authorization header isempty, failing request"))

\* if len(parts) < 2 || strings.ToLower(parts[0]) != "basic" { return ... }
AuthenticateRequestInvalid ==
    /\ HeaderAuth # << >>
    /\ InvalidHeader
    /\ AuthnFails(ErrorOf("invalid header"))

\* A variant that decodes the second part before it looks at the scheme.
AuthenticateRequestCorruptBeforeScheme ==
    /\ HeaderAuth # << >>
    /\ Len(HeaderParts) >= 2
    /\ ~HeaderPayload.ok
    /\ AuthnFails(ErrorOf("illegal base64 data"))

\* if err != nil { return nil, false, err }
AuthenticateRequestCorrupt ==
    /\ HeaderAuth # << >>
    /\ ~InvalidHeader
    /\ ~HeaderPayload.ok
    /\ AuthnFails(ErrorOf("illegal base64 data"))

\* A variant that takes a payload without a colon for a username with an
\* empty password and asks the collaborator.
AuthenticateRequestMalformedAsUser ==
    /\ authnPc = "request"
    /\ HeaderAuth # << >>
    /\ ~InvalidHeader
    /\ HeaderPayload.ok
    /\ Len(HeaderPair) # 2
    /\ passwordCalls' = Append(passwordCalls, <<HeaderPayload.bytes, << >> >>)
    /\ \E reply \in PasswordReplies(passwordClient, HeaderPayload.bytes, << >>) :
          LET r == PasswordResult(passwordClient, reply, HeaderPayload.bytes, << >>)
          IN  /\ providerReply' = reply
              /\ passwordReturn' = r
              /\ authnResult' = r
    /\ authnPc' = "done"
    /\ UNCHANGED <<passwordClient, header>>
    /\ UNCHANGED <<unionVars, ksVars>>

\* if len(pair) != 2 { return nil, false, errors.New(...) }
AuthenticateRequestMalformed ==
    /\ HeaderAuth # << >>
    /\ ~InvalidHeader
    /\ HeaderPayload.ok
    /\ Len(HeaderPair) # 2
    /\ AuthnFails(ErrorOf("malformed basic auth header"))

\* A variant that reports a rejection by the collaborator as an error.
AuthenticateRequestPasswordWrapsFailure ==
    /\ authnPc = "request"
    /\ HeaderAuth # << >>
    /\ ~InvalidHeader
    /\ HeaderPayload.ok
    /\ Len(HeaderPair) = 2
    /\ LET username == HeaderPair[1]
           password == HeaderPair[2]
       IN  /\ passwordCalls' = Append(passwordCalls, <<username, password>>)
           /\ \E reply \in PasswordReplies(passwordClient, username, password) :
                LET r == PasswordResult(passwordClient, reply, username, password)
                IN  /\ providerReply' = reply
                    /\ passwordReturn' = r
                    /\ authnResult' = IF r.ok THEN r
                                      ELSE AuthResult(NilUser, FALSE, ErrorOf("Failed to authenticate"))
    /\ authnPc' = "done"
    /\ UNCHANGED <<passwordClient, header>>
    /\ UNCHANGED <<unionVars, ksVars>>

\* return a.osClient.AuthenticatePassword(username, password)
AuthenticateRequestPassword ==
    /\ authnPc = "request"
    /\ HeaderAuth # << >>
    /\ ~InvalidHeader
    /\ HeaderPayload.ok
    /\ Len(HeaderPair) = 2
    /\ LET username == HeaderPair[1]
           password == HeaderPair[2]
       IN  /\ passwordCalls' = Append(passwordCalls, <<username, password>>)
           /\ \E reply \in PasswordReplies(passwordClient, username, password) :
                LET r == PasswordResult(passwordClient, reply, username, password)
                IN  /\ providerReply' = reply
                    /\ passwordReturn' = r
                    /\ authnResult' = r
    /\ authnPc' = "done"
    /\ UNCHANGED <<passwordClient, header>>
    /\ UNCHANGED <<unionVars, ksVars>>

(***************************************************************************)
(* Keystone request authenticator: requests, construction, next-state.     *)
(***************************************************************************)
\* The character of the standard base64 alphabet with value v.
B64Char(v) ==
    CASE v < 26 -> v + 65
      [] v \in 26..51 -> v + 71
      [] v \in 52..61 -> v - 4
      [] v = 62 -> 43
      [] OTHER -> 47

\* base64.StdEncoding.EncodeToString
RECURSIVE EncodeToString(_)
EncodeToString(bytes) ==
    LET byte(i) == IF i <= Len(bytes) THEN bytes[i] ELSE 0
        n == (byte(1) * 256 + byte(2)) * 256 + byte(3)
        c1 == B64Char(n \div 262144)
        c2 == B64Char((n \div 4096) % 64)
        c3 == B64Char((n \div 64) % 64)
        c4 == B64Char(n % 64)
    IN  IF bytes = << >> THEN << >>
        ELSE IF Len(bytes) = 1 THEN <<c1, c2, 61, 61>>
        ELSE IF Len(bytes) = 2 THEN <<c1, c2, c3, 61>>
        ELSE <<c1, c2, c3, c4>> \o EncodeToString(SubSeq(bytes, 4, Len(bytes)))

\* "Basic " + base64.StdEncoding.EncodeToString([]byte(username + ":" + password))
BasicHeader(username, password) ==
    <<66, 97, 115, 105, 99, 32>> \o EncodeToString(username \o <<58>> \o password)

\* "password1", "password2", "password1:withcolon", "user_without_password"
StrPassword1 ==
    <<112, 97, 115, 115, 119, 111, 114, 100, 49>>

StrPassword2 ==
    <<112, 97, 115, 115, 119, 111, 114, 100, 50>>

StrPassword1WithColon ==
    <<112, 97, 115, 115, 119, 111, 114, 100, 49, 58, 119, 105, 116, 104, 99, 111, 108, 111, 110>>

StrUserWithoutPassword ==
    <<117, 115, 101, 114, 95, 119, 105, 116, 104, 111, 117, 116, 95, 112, 97, 115, 115, 119, 111, 114, 100>>

\* The headers of the table of TestKeystoneAuth.
TestHeaders ==
    { << >>,
      <<66, 101, 97, 114, 101, 114, 32, 102, 111, 111>>,
      <<66, 97, 115, 105, 99>>,
      <<66, 97, 115, 105, 99, 32, 32>>,
      <<66, 97, 115, 105, 99, 32, 33, 64, 35, 36>>,
      <<66, 97, 115, 105, 99, 32>> \o EncodeToString(StrUserWithoutPassword),
      BasicHeader(StrUser1, StrEmpty),
      BasicHeader(StrUser1, StrPassword1WithColon),
      BasicHeader(StrUser1, StrPassword1),
      BasicHeader(StrUser1, StrPassword2) }

\* Generated credentials: usernames without a colon (they may hold a space),
\* passwords that may be empty and may hold colons.
Usernames == SeqsUpTo({117, 32}, MaxUserLen)

Passwords == SeqsUpTo({112, 58}, MaxPassLen)

\* Other spellings of the scheme, of the separator and of the credentials:
\* "Basic", "basic", "BASIC", "bAsIc", "Bearer"; " ", "  ", "\t";
\* "dTpw" ("u:p"), "dTo=" ("u:"), "dTp=" ("u:" with non-zero trailing bits),
\* "dXA=" ("up"), "dTo" (padding missing), "dTo=dTo=" (padding inside),
\* "!@#$", "".
Schemes ==
    { <<66, 97, 115, 105, 99>>, <<98, 97, 115, 105, 99>>, <<66, 65, 83, 73, 67>>, <<98, 65, 115, 73, 99>>, <<66, 101, 97, 114, 101, 114>> }

Separators == { <<32>>, <<32, 32>>, <<9>> }

Tokens ==
    { <<100, 84, 112, 119>>,
      <<100, 84, 111, 61>>,
      <<100, 84, 112, 61>>,
      <<100, 88, 65, 61>>,
      <<100, 84, 111>>,
      <<100, 84, 111, 61, 100, 84, 111, 61>>,
      <<33, 64, 35, 36>>,
      << >> }

\* White space around the header value: none, or a space before and a tab
\* and a space after.
Padded(h) == {h, <<32>> \o h \o <<9, 32>>}

Headers ==
    TestHeaders
    \cup {BasicHeader(u, p) : u \in Usernames, p \in Passwords}
    \cup UNION {Padded(s \o sep \o t) : s \in Schemes, sep \in Separators, t \in Tokens}
    \cup {<<66, 97, 115, 105, 99, 32, 100, 84, 112, 119, 32, 100, 84, 112, 119>>}

NoAuthResult == AuthResult(NilUser, FALSE, NoError)

\* NewKeystoneAuthenticator(authURL): an empty URL is refused, any other one
\* gives an authenticator over an OpenstackClient.
NewKeystoneAuthenticator ==
    /\ authnPc = "new"
    /\ \E authURLEmpty \in BOOLEAN :
          IF authURLEmpty
          THEN /\ authnPc' = "failed"
               /\ UNCHANGED passwordClient
          ELSE /\ authnPc' = "idle"
               /\ passwordClient' = "OpenstackClient"
    /\ UNCHANGED <<header, passwordCalls, passwordReturn, providerReply, authnResult>>
    /\ UNCHANGED <<unionVars, ksVars>>

\* TestKeystoneAuth: KeystoneAuthenticator{osClient: &osClient} over the
\* test double.
TestKeystoneAuthSetup ==
    /\ authnPc = "new"
    /\ authnPc' = "idle"
    /\ passwordClient' = "testOpenstackClient"
    /\ UNCHANGED <<header, passwordCalls, passwordReturn, providerReply, authnResult>>
    /\ UNCHANGED <<unionVars, ksVars>>

\* A request arrives: AuthenticateRequest(req) is called.
AuthenticateRequestEnter ==
    /\ authnPc = "idle"
    /\ header' \in Headers
    /\ authnPc' = "request"
    /\ UNCHANGED <<passwordClient, passwordCalls, passwordReturn, providerReply, authnResult>>
    /\ UNCHANGED <<unionVars, ksVars>>

\* The caller has the result; the authenticator waits for the next request.
AuthenticateRequestReturned ==
    /\ authnPc = "done"
    /\ authnPc' = "idle"
    /\ header' = << >>
    /\ passwordCalls' = << >>
    /\ passwordReturn' = NoAuthResult
    /\ providerReply' = "none"
    /\ authnResult' = NoAuthResult
    /\ UNCHANGED passwordClient
    /\ UNCHANGED <<unionVars, ksVars>>

AuthnParked ==
    /\ passwordClient = "none"
    /\ header = << >>
    /\ authnPc = "parked"
    /\ passwordCalls = << >>
    /\ passwordReturn = NoAuthResult
    /\ providerReply = "none"
    /\ authnResult = NoAuthResult

AuthnInit ==
    /\ passwordClient = "none"
    /\ header = << >>
    /\ authnPc = "new"
    /\ passwordCalls = << >>
    /\ passwordReturn = NoAuthResult
    /\ providerReply = "none"
    /\ authnResult = NoAuthResult

AuthnNext ==
    \/ NewKeystoneAuthenticator
    \/ TestKeystoneAuthSetup
    \/ AuthenticateRequestEnter
    \/ AuthenticateRequestEmpty
    \/ AuthenticateRequestInvalid
    \/ AuthenticateRequestCorrupt
    \/ AuthenticateRequestMalformed
    \/ AuthenticateRequestPassword
    \/ AuthenticateRequestReturned

(***************************************************************************)
(* Specifications.                                                         *)
(***************************************************************************)
UnionInit ==
    /\ authzHandler \in {New(h) : h \in SeqsUpTo(Members, MaxMembers)}
    /\ unionPc = "idle"
    /\ idx = 0
    /\ errlist = << >>
    /\ consulted = << >>
    /\ unionResult = NoError

UnionParked ==
    /\ authzHandler = << >>
    /\ unionPc = "idle"
    /\ idx = 0
    /\ errlist = << >>
    /\ consulted = << >>
    /\ unionResult = NoError

UnionNext ==
    \/ UnionEnter
    \/ UnionIterDeny
    \/ UnionIterGrant
    \/ UnionExhausted

InitUnion ==
    /\ UnionInit
    /\ KeystoneParked
    /\ AuthnParked

InitKeystone ==
    /\ KeystoneInit
    /\ UnionParked
    /\ AuthnParked

InitAuthn ==
    /\ AuthnInit
    /\ UnionParked
    /\ KeystoneParked

SpecUnion == InitUnion /\ [][UnionNext]_vars

SpecKeystone == InitKeystone /\ [][KeystoneNext]_vars

SpecAuthn == InitAuthn /\ [][AuthnNext]_vars

\* The goroutine that serves a request goes on running, and its roleCheck
\* call returns; nothing is assumed of the refresh tasks, whose provider
\* calls may never return.
ServingFairness ==
    /\ WF_vars(AuthorizeReadUser)
    /\ WF_vars(AuthorizeReadTenant)
    /\ WF_vars(AuthorizeReturn)

SpecKeystoneServing ==
    InitKeystone /\ [][KeystoneNext]_vars /\ ServingFairness

\* The keystone authorizer with its refreshes alone, no request being served.
KeystoneRefreshNext ==
    \/ NewKeystoneAuthorizerOpen
    \/ NewKeystoneAuthorizerStart
    \/ TestAuthorizeSetup
    \/ SyncUserMapCall
    \/ SyncUserMapFail
    \/ SyncUserMapList
    \/ SyncUserMapFill
    \/ SyncUserMapPublish
    \/ SyncTenantMapCall
    \/ SyncTenantMapFail
    \/ SyncTenantMapList
    \/ SyncTenantMapFill
    \/ SyncTenantMapPublish

\* util.Forever(f, period): f is called again and again, whatever the last
\* call did.  Every goroutine goes on running: the call of the provider
\* returns (with a list or with an error), the loop over the list advances,
\* the map is assigned.
ForeverFairness ==
    /\ WF_vars(SyncUserMapCall)
    /\ WF_vars(SyncUserMapFail \/ SyncUserMapList)
    /\ WF_vars(SyncUserMapFill)
    /\ WF_vars(SyncUserMapPublish)
    /\ WF_vars(SyncTenantMapCall)
    /\ WF_vars(SyncTenantMapFail \/ SyncTenantMapList)
    /\ WF_vars(SyncTenantMapFill)
    /\ WF_vars(SyncTenantMapPublish)

SpecKeystoneRefresh ==
    InitKeystone /\ [][KeystoneRefreshNext]_vars /\ ForeverFairness

(***************************************************************************)
(* Claims about the union authorizer.                                      *)
(***************************************************************************)
\* Member k is the first member that grants.
FirstGrant(k) ==
    /\ k \in 1..Len(authzHandler)
    /\ authzHandler[k].grants
    /\ \A j \in 1..(k - 1) : ~authzHandler[j].grants

AllDeny == \A j \in 1..Len(authzHandler) : ~authzHandler[j].grants

\* C1: members are consulted strictly in list order, each at most once; when
\* member k is the first to grant, Authorize returns nil and no member after
\* k is ever consulted.
C1_FirstGrantShortCircuits ==
    /\ consulted = [j \in 1..Len(consulted) |-> j]
    /\ \A k \in 1..Len(authzHandler) : FirstGrant(k) =>
          /\ \A i \in 1..Len(consulted) : consulted[i] <= k
          /\ unionPc = "done" =>
                /\ unionResult = NoError
                /\ consulted = [j \in 1..k |-> j]

C1_Witness ==
    /\ unionPc = "done"
    /\ Len(authzHandler) = 3
    /\ FirstGrant(2)
    /\ consulted = <<1, 2>>
    /\ unionResult.isNil

\* C2: when every member denies, Authorize returns a non-nil error whose
\* collected reasons are the members' reasons, one per member, in list order,
\* duplicates kept.
C2_AllDenyAggregatesInOrder ==
    (unionPc = "done" /\ AllDeny) =>
        /\ ~unionResult.isNil
        /\ unionResult.errs =
              [j \in 1..Len(authzHandler) |-> ErrorOf(authzHandler[j].reason)]

C2_Witness ==
    /\ unionPc = "done"
    /\ Len(authzHandler) = 3
    /\ AllDeny
    /\ authzHandler[1].reason = authzHandler[3].reason
    /\ authzHandler[1].reason # authzHandler[2].reason
    /\ Len(unionResult.errs) = 3

\* C3: a union built from the empty list denies: Authorize returns an
\* aggregated failure with zero underlying errors, never the nil error.
C3_EmptyListDenies ==
    (unionPc = "done" /\ authzHandler = << >>) =>
        /\ ~unionResult.isNil
        /\ unionResult.errs = << >>

C3_Witness ==
    /\ unionPc = "done"
    /\ authzHandler = << >>
    /\ consulted = << >>
    /\ ~unionResult.isNil

(***************************************************************************)
(* Claims about the keystone authorizer.                                   *)
(***************************************************************************)
\* The compiled-in list of privileged subject names.
Allowlist ==
    {StrKubelet, StrKubeProxy, StrScheduler, StrControllerManager, StrLogging,
     StrMonitoring}

Privileged(name) == HasPrefix(name, ServiceAccountPrefix) \/ name \in Allowlist

\* The map a successful refresh builds from the list the provider returned:
\* the enabled entries, a later entry of the same name replacing an earlier.
RECURSIVE EnabledUserMap(_)
EnabledUserMap(list) ==
    IF list = << >> THEN EmptyMap
    ELSE LET last == list[Len(list)]
             rest == EnabledUserMap(SubSeq(list, 1, Len(list) - 1))
         IN  IF last.Enabled THEN MapPut(rest, last.Username, last.ID) ELSE rest

RECURSIVE EnabledTenantMap(_)
EnabledTenantMap(list) ==
    IF list = << >> THEN EmptyMap
    ELSE LET last == list[Len(list)]
             rest == EnabledTenantMap(SubSeq(list, 1, Len(list) - 1))
         IN  IF last.Enabled THEN MapPut(rest, last.Name, last.ID) ELSE rest

\* C4: a subject whose name starts with the service-account prefix or is in
\* the Allowlist is granted, in every state of the cache and of the refreshes,
\* and roleCheck is never invoked for it.
C4_PrivilegedAlwaysGranted ==
    (authz.pc # "idle" /\ Privileged(authz.user)) =>
        /\ authz.pc = "done"
        /\ authz.result = Granted
        /\ authz.rcCalls = 0

C4_Witness ==
    /\ authz.pc = "done"
    /\ authz.user = StrMonitoring
    /\ authz.result = Granted
    /\ authz.rcCalls = 0
    /\ userSync.pc = "filling"
    /\ userSync.m # EmptyMap
    /\ tenantRacy
    /\ tenantMap # EmptyMap

\* C5 (state part): for a subject that is not privileged, roleCheck is invoked
\* exactly once, with the ids the two map lookups gave; Authorize grants if
\* and only if roleCheck returned hasRole = true without error, and denies
\* otherwise.
C5_Decision ==
    (authz.pc # "idle" /\ ~Privileged(authz.user)) =>
        /\ authz.rcCalls <= 1
        /\ authz.pc \in {"roleCheck", "done"} =>
             /\ authz.rcCalls = 1
             /\ authz.rcArgs = << Lookup(authz.obsU, authz.user),
                                  Lookup(authz.obsT, authz.ns) >>
        /\ (authz.pc \in {"roleCheck", "done"} /\ phase = "ready") =>
             authz.rcArgs = << Lookup(userMap, authz.user),
                               Lookup(tenantMap, authz.ns) >>
        /\ authz.pc = "done" =>
             /\ authz.result = Granted <=> (authz.rc.hasRole /\ authz.rc.err.isNil)
             /\ authz.result # Granted => ~authz.result.isNil

\* C5 (step part): each lookup reads the map its field refers to at that
\* moment, and no step of Authorize changes either map.
C5_Steps ==
    /\ (authz.pc = "readUser" /\ authz'.pc = "readTenant") =>
          authz'.obsU \in SubMaps(userMap)
    /\ (authz.pc = "readTenant" /\ authz'.pc = "roleCheck") =>
          authz'.obsT \in SubMaps(tenantMap)
    /\ authz'.pc # authz.pc => UNCHANGED <<userMap, tenantMap>>

\* C5: for every subject that is neither service-account-prefixed nor
\* allowlisted, Authorize invokes roleCheck exactly once with
\* (userMap[subject], tenantMap[namespace]), grants if and only if roleCheck
\* returns hasRole = true without error, denies otherwise, and leaves both
\* maps unchanged.
C5_RoleCheckDecides == [](C5_Decision) /\ [][C5_Steps]_vars

C5_Witness ==
    /\ phase = "ready"
    /\ authz.pc = "done"
    /\ authz.user = StrUser1
    /\ authz.ns = StrTenant1
    /\ authz.rcCalls = 1
    /\ authz.rcArgs = <<Id12, Id123>>
    /\ authz.result = Granted

\* A step in which the running syncUserMap (syncTenantMap) returns the error
\* its provider call returned.
UserRefreshFails == userSync.pc = "calling" /\ userSync'.pc = "idle"

TenantRefreshFails == tenantSync.pc = "calling" /\ tenantSync'.pc = "idle"

\* A step in which the running syncUserMap (syncTenantMap) finishes its loop
\* and returns nil.
UserRefreshSucceeds ==
    /\ userSync.pc = "filling"
    /\ userSync'.pc = "idle"
    /\ userSyncErr'.isNil

TenantRefreshSucceeds ==
    /\ tenantSync.pc = "filling"
    /\ tenantSync'.pc = "idle"
    /\ tenantSyncErr'.isNil

\* C6: a refresh that fails because the provider call returns an error leaves
\* the user map and the tenant map as they were and returns that error to its
\* caller; a map changes only in the step in which a refresh of that map
\* succeeds, so until then every lookup resolves against the map cached
\* before.
C6_FailedRefreshKeepsCache ==
    [][ /\ UserRefreshFails =>
             /\ userSyncErr' \in GetUsersErrors(osClient)
             /\ UNCHANGED <<userMap, tenantMap, userRacy, tenantRacy>>
        /\ TenantRefreshFails =>
             /\ tenantSyncErr' \in GetTenantsErrors(osClient)
             /\ UNCHANGED <<userMap, tenantMap, userRacy, tenantRacy>>
        /\ userMap' # userMap => UserRefreshSucceeds
        /\ tenantMap' # tenantMap => TenantRefreshSucceeds
      ]_vars

C6_Witness ==
    /\ phase = "running"
    /\ userSync.pc = "idle"
    /\ ~userSyncErr.isNil
    /\ userMap = EnabledUserMap(<< User(StrUser1, Id12, TRUE), User(StrUser3, Id34, TRUE) >>)
    /\ authz.pc = "done"
    /\ authz.user = StrUser1
    /\ authz.uid = Id12

\* The maps a reader may see according to C7: the initial empty map, or the
\* complete result of a successful refresh.
CompleteUserMaps ==
    {EmptyMap} \cup { EnabledUserMap(l) : l \in GetUsersLists(osClient) }

CompleteTenantMaps ==
    {EmptyMap} \cup { EnabledTenantMap(l) : l \in GetTenantsLists(osClient) }

\* C7: the user map visible to an authorization check is the initial empty
\* map or the complete result of a successful refresh, and likewise the tenant
\* map; a partially filled map is never visible to a reader.
C7_NoPartialMapVisible ==
    /\ authz.obsU \in CompleteUserMaps
    /\ authz.obsT \in CompleteTenantMaps

(***************************************************************************)
(* Claims about the keystone request authenticator.                        *)
(***************************************************************************)
\* The white-space separated tokens of a header value.
RECURSIVE Fields(_)
Fields(s) ==
    LET t == TrimLeft(s)
        W == {i \in 1..Len(t) : t[i] \in AsciiSpace}
        e == IF W = {} THEN Len(t) + 1 ELSE CHOOSE i \in W : \A j \in W : i <= j
    IN  IF t = << >> THEN << >>
        ELSE <<SubSeq(t, 1, e - 1)>> \o Fields(SubSeq(t, e, Len(t)))

\* Text in the form of RFC 4648 base64: groups of four characters of the
\* alphabet, the last group possibly ending in "=" or "==".
WellFormedBase64(t) ==
    /\ Len(t) % 4 = 0
    /\ \A i \in 1..Len(t) :
          \/ IsB64(t[i])
          \/ /\ t[i] = 61
             /\ i >= Len(t) - 1
             /\ i = Len(t) - 1 => t[Len(t)] = 61
             /\ i % 4 \in {0, 3}

HasColon(bytes) == \E i \in 1..Len(bytes) : bytes[i] = 58

\* The header has fewer than two tokens, a first token that is no case
\* variant of "Basic", a second token that is not base64, or a payload
\* without a colon.
MalformedHeader ==
    LET tokens == Fields(header)
    IN  \/ Len(tokens) < 2
        \/ ToLower(tokens[1]) # StrBasicLower
        \/ ~WellFormedBase64(tokens[2])
        \/ ~HasColon(DecodeString(tokens[2]).bytes)

\* C8: for a malformed header (fewer than two tokens, a scheme other than a
\* case variant of Basic, a second token that is not valid base64, a payload
\* without a colon) AuthenticateRequest returns (nil, false, err) with a
\* non-nil err and never invokes the password collaborator.
C8_MalformedHeaderRejected ==
    (authnPc \in {"request", "done"} /\ MalformedHeader) =>
        /\ passwordCalls = << >>
        /\ authnPc = "done" =>
              /\ authnResult.user.isNil
              /\ ~authnResult.ok
              /\ ~authnResult.err.isNil

C8_Witness ==
    /\ authnPc = "done"
    /\ header = <<66, 97, 115, 105, 99, 32>> \o EncodeToString(StrUserWithoutPassword)
    /\ MalformedHeader
    /\ authnResult = AuthResult(NilUser, FALSE, ErrorOf("malformed basic auth header"))
    /\ passwordCalls = << >>

\* C9: for every username without a colon and every password (empty ones
\* and ones with colons included), the header "Basic " followed by the
\* base64 of username ":" password makes AuthenticateRequest hand exactly
\* (username, password) to the collaborator: the payload is split at the
\* first colon only.
C9_BasicRoundTrip ==
    \A u \in Usernames \cup {StrUser1} :
      \A p \in Passwords \cup {StrPassword1, StrPassword1WithColon} :
        (authnPc = "done" /\ header = BasicHeader(u, p)) =>
            passwordCalls = << <<u, p>> >>

C9_Witness ==
    /\ authnPc = "done"
    /\ header = BasicHeader(<<117>>, <<58, 112, 58>>)
    /\ passwordCalls = << << <<117>>, <<58, 112, 58>> >> >>

\* The header passes every check of AuthenticateRequest.
HeaderParses ==
    /\ HeaderAuth # << >>
    /\ ~InvalidHeader
    /\ HeaderPayload.ok
    /\ Len(HeaderPair) = 2

\* C10: for every header that parses, the collaborator is invoked exactly
\* once, with the decoded (username, password), and the (user, ok, err) it
\* returns is what AuthenticateRequest returns, unchanged: a rejection
\* (nil, false, nil) comes back as ok = false with no error.
C10_PasswordResultReturnedUnchanged ==
    /\ Len(passwordCalls) <= 1
    /\ (authnPc = "done" /\ HeaderParses) =>
          /\ Len(passwordCalls) = 1
          /\ ~HasColon(passwordCalls[1][1])
          /\ passwordCalls[1][1] \o <<58>> \o passwordCalls[1][2] = HeaderPayload.bytes
          /\ passwordReturn \in
                AuthenticatePassword(passwordClient, passwordCalls[1][1], passwordCalls[1][2])
          /\ authnResult = passwordReturn

C10_Witness ==
    /\ authnPc = "done"
    /\ passwordClient = "testOpenstackClient"
    /\ header = BasicHeader(StrUser1, StrEmpty)
    /\ passwordCalls = << <<StrUser1, StrEmpty>> >>
    /\ authnResult = AuthResult(NilUser, FALSE, NoError)

\* The request carried the password p for the account u of the provider,
\* p is not the account's password, and the provider was reached.
WrongPasswordFor(u, p) ==
    /\ authnPc = "done"
    /\ u \in DOMAIN ProviderAccounts
    /\ p # ProviderAccounts[u]
    /\ header = BasicHeader(u, p)
    /\ providerReply # "unreachable"

\* C11: a well-formed Basic header with a recognized username and a wrong
\* password yields (nil, false, nil), with the test double and with the
\* authenticator of NewKeystoneAuthenticator over OpenstackClient alike: a
\* failed credential check is a negative result, not an error.
C11_WrongPasswordIsNoError ==
    \A p \in {StrEmpty, StrPassword2, StrPassword1WithColon} :
        WrongPasswordFor(StrUser1, p) =>
            authnResult = AuthResult(NilUser, FALSE, NoError)

(***************************************************************************)
(* Further claims about the keystone authorizer.                           *)
(***************************************************************************)
\* The call has read both maps and the subject or the namespace was missing
\* from the map it read.
UnresolvedUser == authz.user \notin DOMAIN authz.obsU

UnresolvedTenant == authz.ns \notin DOMAIN authz.obsT

\* C12: for a subject that is not privileged and whose name is absent from
\* the user map, or whose namespace is absent from the tenant map (the empty
\* name and namespace included), Authorize passes the empty id to roleCheck
\* and the request is denied: with the test double's roleCheck (no role for
\* an empty id) and with OpenstackClient.roleCheck (an error for an empty id).
C12_UnresolvedIdDenied ==
    ( /\ authz.pc \in {"roleCheck", "done"}
      /\ ~Privileged(authz.user)
      /\ UnresolvedUser \/ UnresolvedTenant ) =>
        /\ authz.rcCalls = 1
        /\ UnresolvedUser => authz.rcArgs[1] = StrEmpty
        /\ UnresolvedTenant => authz.rcArgs[2] = StrEmpty
        /\ authz.pc = "done" =>
             /\ authz.result # Granted
             /\ ~authz.result.isNil
             /\ osClient = "OpenstackClient" =>
                  authz.result = ErrorOf("Keystone authorization failed")
             /\ osClient = "testOpenstackClient" =>
                  authz.result = ErrorOf("User not authorized through keystone for namespace")

C12_Witness ==
    /\ authz.pc = "done"
    /\ osClient = "OpenstackClient"
    /\ authz.user = StrUser1
    /\ authz.ns = StrTenant3
    /\ authz.obsU = MapPut(MapPut(EmptyMap, StrUser1, Id12), StrUser3, Id34)
    /\ authz.obsT = MapPut(EmptyMap, StrTenant1, Id123)
    /\ authz.rcArgs = <<Id12, StrEmpty>>
    /\ authz.result = ErrorOf("Keystone authorization failed")

(***************************************************************************)
(* Further claims about the keystone request authenticator.                *)
(***************************************************************************)
\* The header's tokens are separated by single spaces: splitting on white
\* space and splitting on the space character give the same tokens.
SingleSpaced == Fields(header) = Split(TrimSpace(header), 32)

\* The first check of the decoder that the header fails, in the order empty
\* header, token count and scheme, base64, colon; "" when it passes all.
FirstFailingCheck ==
    LET tokens == Fields(header)
    IN  IF tokens = << >> THEN "Authorization header isempty, failing request"
        ELSE IF Len(tokens) < 2 \/ ToLower(tokens[1]) # StrBasicLower
        THEN "invalid header"
        ELSE IF ~WellFormedBase64(tokens[2]) THEN "illegal base64 data"
        ELSE IF ~HasColon(DecodeString(tokens[2]).bytes)
        THEN "malformed basic auth header"
        ELSE ""

C14_ConsistentSnapshotPair ==
    authz.pc \in {"roleCheck", "done"} => ~authz.mixed

\* C15: a successful refreshUsers leaves the user map equal to
\* {username -> id} over the enabled users of the list the provider returned
\* (disabled users and entries of the previous map that are not in the list
\* are absent: replacement, not merge) and leaves the tenant map unchanged;
\* symmetrically for refreshTenants.
C15_RefreshReplaces ==
    [][ /\ UserRefreshSucceeds =>
             /\ userMap' = EnabledUserMap(userSync.list)
             /\ \A name \in DOMAIN userMap' :
                  \E i \in 1..Len(userSync.list) :
                     /\ userSync.list[i].Username = name
                     /\ userSync.list[i].Enabled
             /\ UNCHANGED tenantMap
        /\ TenantRefreshSucceeds =>
             /\ tenantMap' = EnabledTenantMap(tenantSync.list)
             /\ \A name \in DOMAIN tenantMap' :
                  \E i \in 1..Len(tenantSync.list) :
                     /\ tenantSync.list[i].Name = name
                     /\ tenantSync.list[i].Enabled
             /\ UNCHANGED userMap
      ]_vars

\* The user map was {user1: 12, user3: 34} when a call read it, and a later
\* refresh, whose list has user1 with another id and user3 disabled, has
\* replaced it.
C15_Witness ==
    /\ phase = "running"
    /\ authz.pc = "readTenant"
    /\ authz.obsU = MapPut(MapPut(EmptyMap, StrUser1, Id12), StrUser3, Id34)
    /\ userSync.pc = "idle"
    /\ userSyncErr.isNil
    /\ userMap = MapPut(EmptyMap, StrUser1, Id23)
    /\ tenantMap # EmptyMap

\* From now on the provider's user (tenant) list call in this step, if the
\* step is the return of one, succeeds and returns the list l.
UsersSettledStep(l) ==
    /\ ~UserRefreshFails
    /\ (userSync.pc = "calling" /\ userSync'.pc = "filling") => userSync'.list = l

TenantsSettledStep(l) ==
    /\ ~TenantRefreshFails
    /\ (tenantSync.pc = "calling" /\ tenantSync'.pc = "filling") => tenantSync'.list = l

\* While the background tasks run, a task that is not in a refresh can start
\* its next one, whatever the last one returned.
RefreshStillTriggered ==
    phase = "running" =>
        /\ userSync.pc = "idle" => ENABLED SyncUserMapCall
        /\ tenantSync.pc = "idle" => ENABLED SyncTenantMapCall

\* C16: a failed scheduled refresh does not stop the recurring task: each of
\* the two tasks keeps being triggered, and under fair scheduling, if from
\* some point on the provider's list calls succeed and return the same list,
\* each map eventually equals the enabled entries of that list, for good.
C16_RefreshRecovers ==
    /\ []RefreshStillTriggered
    /\ \A l \in ProviderUserLists :
          (<>(phase = "running") /\ <>[][UsersSettledStep(l)]_vars)
              => <>[](userMap = EnabledUserMap(l))
    /\ \A l \in ProviderTenantLists :
          (<>(phase = "running") /\ <>[][TenantsSettledStep(l)]_vars)
              => <>[](tenantMap = EnabledTenantMap(l))

\* Both tasks have had a refresh fail and wait for their next one.
C16_Witness ==
    /\ phase = "running"
    /\ userSync.pc = "idle"
    /\ ~userSyncErr.isNil
    /\ tenantSync.pc = "idle"
    /\ ~tenantSyncErr.isNil
    /\ ENABLED SyncUserMapCall
    /\ ENABLED SyncTenantMapCall

\* Every step of the read path can be taken where the call stands, whatever
\* the refresh tasks are doing.
ReadPathNeverWaits ==
    /\ CanStartAuthorize =>
          /\ ENABLED AuthorizeEnter
          /\ ENABLED AuthorizeWhiteListed
          /\ ENABLED AuthorizeServiceAccount
    /\ authz.pc = "readUser" => ENABLED AuthorizeReadUser
    /\ authz.pc = "readTenant" => ENABLED AuthorizeReadTenant
    /\ authz.pc = "roleCheck" => ENABLED AuthorizeReturn

\* C17: the authorization read path never waits for a refresh: in every
\* reachable state, with a refresh blocked in its provider call or not, an
\* Authorize call can start, and a started call runs to its decision, given
\* that its own roleCheck call returns.
C17_ReadPathNeverBlocks ==
    /\ []ReadPathNeverWaits
    /\ (authz.pc = "readUser") ~> (authz.pc = "done")

\* A call has got its decision, from the maps as published, while both
\* refresh tasks are in their provider calls.
C17_Witness ==
    /\ phase = "running"
    /\ userSync.pc = "calling"
    /\ tenantSync.pc = "calling"
    /\ authz.pc = "done"
    /\ authz.rcCalls = 1
    /\ authz.obsU = userMap
    /\ authz.obsT = tenantMap
    /\ userMap # EmptyMap

\* The case variants of "Basic" among the schemes of the requests.
BasicSchemes == {sch \in Schemes : ToLower(sch) = StrBasicLower}

\* C18: the decoder splits the header on white space and compares the scheme
\* without regard to case: a case variant of "Basic", then one or more white
\* space characters (one space, several spaces, or a tab), then the base64
\* of username ":" password decodes to that username and that password.
C18_WhitespaceAndCase ==
    \A sch \in BasicSchemes, sep \in Separators :
      \A u \in {<<117>>}, p \in {<<112>>, << >>} :
        (authnPc = "done" /\ header = sch \o sep \o EncodeToString(u \o <<58>> \o p)) =>
            passwordCalls = << <<u, p>> >>

\* The two denials of Authorize.
GenericFailure == ErrorOf("Keystone authorization failed")

NotAuthorized == ErrorOf("User not authorized through keystone for namespace")

\* C19: the denial Authorize returns when roleCheck fails does not depend on
\* the failure: whichever error roleCheck returned, the caller gets the same
\* generic denial, which tells nothing of that error and differs from the
\* denial returned when roleCheck succeeds and finds no role.
C19_FailureNotLeaked ==
    (authz.pc = "done" /\ authz.rcCalls = 1) =>
        /\ ~authz.rc.err.isNil =>
              /\ authz.result = GenericFailure
              /\ authz.result # authz.rc.err
        /\ (authz.rc.err.isNil /\ ~authz.rc.hasRole) => authz.result = NotAuthorized
        /\ GenericFailure # NotAuthorized

C19_Witness ==
    /\ authz.pc = "done"
    /\ authz.rcArgs = <<Id12, Id123>>
    /\ authz.rc.err = ErrorOf("pager: 500")
    /\ authz.result = GenericFailure

\* C20 (state part): at most one refresh of the user map and at most one of
\* the tenant map is in flight, from construction onward.
C20_OneRefreshPerMap ==
    /\ inFlight.users <= 1
    /\ inFlight.tenants <= 1
    /\ inFlight.users = 1 <=> userSync.pc # "idle"
    /\ inFlight.tenants = 1 <=> tenantSync.pc # "idle"
    /\ phase \in {"syncUsers", "syncTenants", "starting"} =>
          inFlight.users + inFlight.tenants <= 1

\* C20 (step part): the map a refresh publishes is the one readers see from
\* then on: the last write wins.
C20_LastWriteWins ==
    /\ UserRefreshSucceeds => userMap' = userSync.m
    /\ TenantRefreshSucceeds => tenantMap' = tenantSync.m
    /\ (authz.pc = "readUser" /\ authz'.pc = "readTenant") =>
          authz'.uid = Lookup(authz'.obsU, authz.user) /\ authz'.obsU \in SubMaps(userMap)

\* C20: at most one refresh of the user map and at most one refresh of the
\* tenant map is in flight at any time, the initial refreshes of the
\* constructor never overlapping the scheduled ones; a user refresh and a
\* tenant refresh may overlap each other, and for each map the one published
\* last is the one readers see.
C20_SingleWriterPerMap == [](C20_OneRefreshPerMap) /\ [][C20_LastWriteWins]_vars

\* A user refresh and a tenant refresh of the background tasks overlap.
C20_Witness ==
    /\ phase = "running"
    /\ inFlight = [users |-> 1, tenants |-> 1]
    /\ userSync.pc = "filling"
    /\ tenantSync.pc = "calling"
    /\ userMap # EmptyMap

\* The phases of a call of NewKeystoneAuthorizer, in order; "failed": it
\* returned (nil, err); "running": it returned (ka, nil).
Constructing == phase \in {"syncUsers", "syncTenants", "starting"}

\* C21 (state part): where NewKeystoneAuthorizer is, which maps have been
\* assigned by a refresh, and what a returned error leaves behind.
C21_Construction ==
    /\ phase \in {"new", "syncUsers"} => published = [users |-> FALSE, tenants |-> FALSE]
    /\ phase = "syncTenants" =>
          published = [users |-> TRUE, tenants |-> FALSE] /\ userSyncErr = NoError
    /\ phase = "starting" =>
          /\ published = [users |-> TRUE, tenants |-> TRUE]
          /\ userSyncErr = NoError /\ tenantSyncErr = NoError
    /\ phase = "running" => published = [users |-> TRUE, tenants |-> TRUE]
    /\ Constructing => authz = AuthzIdle /\ ~userRacy /\ ~tenantRacy
    /\ authz.pc # "idle" => published = [users |-> TRUE, tenants |-> TRUE]
    /\ phase = "failed" =>
          /\ authz = AuthzIdle
          /\ inFlight = [users |-> 0, tenants |-> 0]
          /\ ~published.tenants
          /\ published.users => tenantSyncErr # NoError
          /\ userSyncErr # NoError => ~published.users

\* C21 (step part): a failing initial refresh makes the constructor return
\* the error; after that nothing of the authorizer runs; a refresh starts
\* only in the constructor, in the test, or in a started background task.
C21_Steps ==
    /\ (phase = "syncUsers" /\ UserRefreshFails) => phase' = "failed"
    /\ (phase = "syncTenants" /\ TenantRefreshFails) => phase' = "failed"
    /\ (phase = "syncUsers" /\ UserRefreshSucceeds) => phase' = "syncTenants"
    /\ (phase = "syncTenants" /\ TenantRefreshSucceeds) => phase' = "starting"
    /\ phase = "failed" => UNCHANGED ksVars
    /\ (phase' = "running" /\ phase # "running") =>
          phase = "starting" /\ userMap' = userMap /\ tenantMap' = tenantMap
    /\ (osClient = "OpenstackClient" /\ phase # "running") =>
          inFlight'.users + inFlight'.tenants <= 1

\* C21: NewKeystoneAuthorizer returns an authorizer only after one user
\* refresh and then one tenant refresh have both succeeded, so no request is
\* served from the initial empty maps; if the config, the client or either
\* initial refresh fails, it returns an error and no authorizer, and neither
\* background refresh task is started.
C21_ConstructionAllOrNothing == [](C21_Construction) /\ [][C21_Steps]_vars

\* The initial user refresh succeeded, the initial tenant refresh failed, and
\* the constructor returned that error.
C21_Witness ==
    /\ osClient = "OpenstackClient"
    /\ phase = "failed"
    /\ published.users
    /\ userMap # EmptyMap
    /\ tenantMap = EmptyMap
    /\ tenantSyncErr # NoError

\* The returned authorizer has served a request that went to roleCheck.
C21_ServedAfterConstruction ==
    /\ osClient = "OpenstackClient"
    /\ phase = "running"
    /\ authz.pc = "done"
    /\ authz.rcCalls = 1

====
